---- MODULE Spec2Model ----
(***************************************************************************)
(* The transactions page of the spending tracker, in its two revisions:    *)
(*   "signInferred"  src/src/app/(dashboard)/transactions/page.tsx         *)
(*                   (polarity derived from the sign of amount)            *)
(*   "explicitType"  src/unnamed/part_003                                  *)
(*                   (polarity read from the record's type field)          *)
(* The state is the React state of the mounted page together with the      *)
(* values its render derives from that state.  Every handler is followed   *)
(* by the re-render React performs after a state update, so each action    *)
(* recomputes the view, the totals and the rows.                           *)
(*                                                                         *)
(* Abstractions: amounts are integers (minor currency units); a string is  *)
(* a sequence of one-character strings; a date string "YYYY-MM-DD" is the  *)
(* triple <<y, m, d>> and Date.getTime() is counted in days, not in        *)
(* milliseconds (the factor 86400000 does not fit the checker's integers   *)
(* and does not change the sign of a difference).  Dates are well formed.  *)
(*                                                                         *)
(* The specifications share the state:                                     *)
(*   Spec      the view engine of a loaded transactions page: fetched      *)
(*             snapshots and the four view parameters;                     *)
(*   SpecPage  the life of a transactions page: the session check on       *)
(*             mount, the provider's table, fetches, inserts and deletes   *)
(*             in flight and what the user is told;                        *)
(*   SpecHome  the Home page in its three revisions (src/app/page.tsx,     *)
(*             the second component of src/src/app/(auth)/callback/        *)
(*             page.tsx, src/src/app/(dashboard)/page.tsx): the session    *)
(*             check, the dashboard's queries and totals, and the locally  *)
(*             held expense list;                                          *)
(*   SpecAuth  the login form (src/src/components/login-form.tsx) and the  *)
(*             auth callback page;                                         *)
(*   SpecApp   any one of the screens above; FairSpecApp adds that every   *)
(*             awaited call is answered.                                   *)
(***************************************************************************)
EXTENDS Integers, Sequences, FiniteSets, TLC

VARIABLES
    page,            \* which revision of the transactions page is mounted
    transactions,    \* useState<Transaction[]>([])
    lastFetched,     \* the data of the last successful fetch (history)
    filterType,      \* useState('all')
    searchQuery,     \* useState('')
    sortBy,          \* useState('date')
    sortOrder,       \* useState('desc')
    view,            \* filteredAndSortedTransactions of the last render
    totalIncome,     \* totalIncome of the last render
    totalExpenses,   \* totalExpenses of the last render
    netBalance,      \* the Net Balance card of the last render
    rows,            \* the rendered list rows of the last render
    session,         \* whether the provider holds a session for the user
    authChecked,     \* what checkAuth's getSession returned: "no" before it has
    loading,         \* useState(true)
    navigatedTo,     \* the target of router.push, "none" before any
    db,              \* the rows of the provider's transactions table
    requests,        \* fetchTransactions calls in flight, oldest first
    saving,          \* useState(false)
    insertInFlight,  \* the row handleAddTransaction is inserting, or NoRow
    deleting,        \* ids whose handleDeleteTransaction is in flight
    lastEvent,       \* the last provider outcome and what the user was told
    fetchedOnce,     \* whether setTransactions(data) has run (history)
    newestFetch,     \* how the fetchTransactions call issued last ended (history)
    home,            \* the mounted revision of Home, "none" when not mounted
    expenses,        \* useState<Expense[]>([])
    issuedIds,       \* the ids crypto.randomUUID() has returned (history)
    total,           \* the Total Spending of the last render
    lastExpenseOp,   \* the last expense handler call and its input (history)
    supabaseInstance,\* let supabaseInstance: SupabaseClient | null = null
    clientsBuilt,    \* how often createSupabaseClient has run (history)
    clientReturned,  \* the instances createClient has returned (history)
    txEffect,        \* where the dashboard's fetchTransactions effect stands
    acctEffect,      \* where the dashboard's fetchAccounts effect stands
    allTransactions, \* useState<any[]>([]), the dashboard's full list
    recentTransactions, \* useState<any[]>([]), the dashboard's 3 most recent
    loadingTransactions, \* useState(true)
    accounts,        \* useState<any[]>([])
    loadingAccounts, \* useState(true)
    totalBalance,    \* totalBalance of the dashboard's last render
    totalDebts,      \* totalDebts of the dashboard's last render
    dashboardQueries, \* the data queries the dashboard has issued (history)
    showForm,        \* useState(false)
    formAmount,      \* useState(''), the text of the amount field
    formDescription, \* useState('')
    formType,        \* useState('expense')
    formCategory,    \* useState('Online Purchases')
    formDate,        \* useState(today)
    syncing,         \* useState(false)
    syncCall,        \* the call handleSyncTransactions awaits, "none" if none
    screen,          \* the mounted auth screen: "login", "callback" or "none"
    isSignUp,        \* useState(false)
    loginLoading,    \* the login form's useState(false) named loading
    message,         \* useState("")
    loginCall,       \* the auth call handleSubmit awaits, "none" if none
    oauthCall,       \* whether handleOAuthLogin awaits signInWithOAuth
    location,        \* what window.location.href was set to, "none" if not
    cbTokenHash,     \* whether the callback URL has a non-empty token_hash
    cbType,          \* whether the callback URL has a non-empty type
    cbHash,          \* whether the callback URL has a non-empty hash
    cbStep,          \* where handleCallback stands
    cbCalls,         \* the auth calls handleCallback has made (history)
    pushes           \* the targets of the callback's router.push calls, in order

viewVars == <<page, transactions, lastFetched, filterType, searchQuery, sortBy,
              sortOrder, view, totalIncome, totalExpenses, netBalance, rows>>

gateVars == <<session, authChecked, loading, navigatedTo>>

providerVars == <<db, requests, saving, insertInFlight, deleting, lastEvent,
                  fetchedOnce, newestFetch>>

homeVars == <<home, expenses, issuedIds, total, lastExpenseOp>>

clientVars == <<supabaseInstance, clientsBuilt, clientReturned>>

dashVars == <<txEffect, acctEffect, allTransactions, recentTransactions,
              loadingTransactions, accounts, loadingAccounts, totalBalance,
              totalDebts, dashboardQueries>>

formVars == <<showForm, formAmount, formDescription, formType, formCategory,
              formDate>>

syncVars == <<syncing, syncCall>>

authVars == <<screen, isSignUp, loginLoading, message, loginCall, oauthCall,
              location,
              cbTokenHash, cbType, cbHash, cbStep, cbCalls, pushes>>

vars == <<viewVars, gateVars, providerVars, homeVars, clientVars, dashVars,
          formVars, syncVars, authVars>>

----------------------------------------------------------------------------
(* Bounds and input sets *)

MaxLen == 3

Pages == {"signInferred", "explicitType"}

FilterTypes == {"all", "income", "expense"}

SortOrders == {"asc", "desc"}

SortKeys(p) ==
    IF p = "signInferred" THEN {"date", "amount", "name"}
    ELSE {"date", "amount", "description"}

Coffee == <<"C", "o", "f", "f", "e", "e">>
coffee == <<"c", "o", "f", "f", "e", "e">>
Refund == <<"R", "e", "f", "u", "n", "d">>
Rent == <<"R", "e", "n", "t">>
Cab == <<"C", "a", "b">>

\* Rows the provider's transactions table may hold.  Records 1 and 2 are the
\* scenario of the specification; the others add a negative amount, a zero
\* amount, a type that disagrees with the sign, and ties on every sort key.
Catalogue ==
    { [id |-> "1", amount |-> 100, type |-> "expense", description |-> Coffee,
       date |-> <<2024, 1, 1>>],
      [id |-> "2", amount |-> 50, type |-> "income", description |-> Refund,
       date |-> <<2024, 1, 2>>],
      [id |-> "3", amount |-> -100, type |-> "income", description |-> coffee,
       date |-> <<2024, 1, 2>>],
      [id |-> "4", amount |-> 0, type |-> "expense", description |-> Rent,
       date |-> <<2023, 12, 31>>],
      [id |-> "5", amount |-> -50, type |-> "expense", description |-> Refund,
       date |-> <<2024, 1, 1>>],
      [id |-> "6", amount |-> 50, type |-> "income", description |-> Cab,
       date |-> <<2024, 2, 1>>] }

SearchQueries ==
    { <<>>, <<"c", "o", "f">>, <<"R", "E">> }

----------------------------------------------------------------------------
(* JavaScript built-ins used by the page *)

Abs(x) == IF x < 0 THEN -x ELSE x

UpperLetters ==
    <<"A", "B", "C", "D", "E", "F", "G", "H", "I", "J", "K", "L", "M",
      "N", "O", "P", "Q", "R", "S", "T", "U", "V", "W", "X", "Y", "Z">>

LowerLetters ==
    <<"a", "b", "c", "d", "e", "f", "g", "h", "i", "j", "k", "l", "m",
      "n", "o", "p", "q", "r", "s", "t", "u", "v", "w", "x", "y", "z">>

\* The lower-case letter of every upper-case letter
LowerOf ==
    [c \in {UpperLetters[i] : i \in 1..26} |->
        LowerLetters[CHOOSE i \in 1..26 : UpperLetters[i] = c]]

IsUpper(c) == c \in DOMAIN LowerOf

LowerChar(c) == IF IsUpper(c) THEN LowerOf[c] ELSE c

\* String.prototype.toLowerCase
ToLowerCase(s) == [i \in 1..Len(s) |-> LowerChar(s[i])]

\* String.prototype.includes: q occurs in s as a contiguous substring
Includes(s, q) ==
    \E start \in 1..(Len(s) - Len(q) + 1) :
        SubSeq(s, start, start + Len(q) - 1) = q

\* Position of every lower-case letter in the alphabet
RankOf ==
    [c \in {LowerLetters[i] : i \in 1..26} |->
        CHOOSE i \in 1..26 : LowerLetters[i] = c]

\* Position of a letter in the alphabet, whatever its case
LetterRank(c) == RankOf[LowerChar(c)]

Min(a, b) == IF a < b THEN a ELSE b

\* String.prototype.localeCompare with the default (root) collation: letters
\* are compared alphabetically without regard to case, a proper prefix sorts
\* first, and only between strings that differ in case alone does the
\* lower-case letter sort first.
LocaleCompare(a, b) ==
    LET n == Min(Len(a), Len(b))
        diff == {i \in 1..n : LetterRank(a[i]) # LetterRank(b[i])}
        caseDiff == {i \in 1..n : a[i] # b[i]}
        First(S) == CHOOSE i \in S : \A j \in S : i <= j
    IN  IF diff # {}
        THEN IF LetterRank(a[First(diff)]) < LetterRank(b[First(diff)])
             THEN -1 ELSE 1
        ELSE IF Len(a) # Len(b)
        THEN IF Len(a) < Len(b) THEN -1 ELSE 1
        ELSE IF caseDiff # {}
        THEN IF IsUpper(a[First(caseDiff)]) THEN 1 ELSE -1
        ELSE 0

\* new Date("YYYY-MM-DD").getTime(), in days since 1970-01-01 (UTC)
GetTime(date) ==
    LET y == IF date[2] <= 2 THEN date[1] - 1 ELSE date[1]
        mp == IF date[2] > 2 THEN date[2] - 3 ELSE date[2] + 9
        era == y \div 400
        yoe == y - era * 400
        doy == (153 * mp + 2) \div 5 + date[3] - 1
        doe == yoe * 365 + yoe \div 4 - yoe \div 100 + doy
    IN  era * 146097 + doe - 719468

\* Array.prototype.reduce((sum, x) => sum + x, 0) over a sequence of numbers
SumSeqFromOne(s) ==
    LET f[i \in 0..Len(s)] == IF i = 0 THEN 1 ELSE f[i - 1] + s[i]
    IN  f[Len(s)]

SumSeq(s) ==
    LET f[i \in 0..Len(s)] == IF i = 0 THEN 0 ELSE f[i - 1] + s[i]
    IN  f[Len(s)]

\* Array.prototype.map over the amounts
Amounts(s) == [i \in 1..Len(s) |-> s[i].amount]

AbsAmounts(s) == [i \in 1..Len(s) |-> Abs(s[i].amount)]

----------------------------------------------------------------------------
(* The sign-inferred page: src/src/app/(dashboard)/transactions/page.tsx *)

GetTransactionTypeStrict(amount) ==
    IF amount > 0 THEN "expense" ELSE "income"

\* getTransactionType: positive (and zero) amount is an expense
GetTransactionType(amount) ==
    IF amount >= 0 THEN "expense" ELSE "income"

KeepSignInferredNoAll(t, ft, sq) ==
    /\ GetTransactionType(t.amount) = ft
    /\ ~(sq # <<>> /\ ~Includes(ToLowerCase(t.description), ToLowerCase(sq)))

\* The .filter callback; transaction.name is the record's description
KeepSignInferred(t, ft, sq) ==
    /\ ~(ft # "all" /\ GetTransactionType(t.amount) # ft)
    /\ ~(sq # <<>> /\ ~Includes(ToLowerCase(t.description), ToLowerCase(sq)))

CompareSignInferredRaw(a, b, sb) ==
    CASE sb = "date" -> GetTime(a.date) - GetTime(b.date)
      [] sb = "amount" -> a.amount - b.amount
      [] sb = "name" -> LocaleCompare(a.description, b.description)
      [] OTHER -> 0

\* The value of `comparison` in the .sort callback
CompareSignInferred(a, b, sb) ==
    CASE sb = "date" -> GetTime(a.date) - GetTime(b.date)
      [] sb = "amount" -> Abs(a.amount) - Abs(b.amount)
      [] sb = "name" -> LocaleCompare(a.description, b.description)
      [] OTHER -> 0

SortComparatorSignInferredAscOnly(a, b, sb, so) ==
    CompareSignInferred(a, b, sb)

\* The .sort callback: sortOrder === 'asc' ? comparison : -comparison
SortComparatorSignInferred(a, b, sb, so) ==
    IF so = "asc" THEN CompareSignInferred(a, b, sb)
    ELSE -CompareSignInferred(a, b, sb)

TotalIncomeSignInferred(v) ==
    LET IsIncome(t) == GetTransactionType(t.amount) = "income"
    IN  SumSeq(AbsAmounts(SelectSeq(v, IsIncome)))

TotalExpensesSignInferred(v) ==
    LET IsExpense(t) == GetTransactionType(t.amount) = "expense"
    IN  SumSeq(Amounts(SelectSeq(v, IsExpense)))

\* One rendered list row: key, the colour/sign class and the shown amount
RowSignInferred(t) ==
    [key |-> t.id,
     txType |-> GetTransactionType(t.amount),
     sign |-> IF GetTransactionType(t.amount) = "income" THEN "+" ELSE "-",
     displayAmount |-> Abs(t.amount)]

----------------------------------------------------------------------------
(* The explicit-type page: src/unnamed/part_003 *)

KeepExplicitTypeCaseSensitive(t, ft, sq) ==
    /\ ~(ft # "all" /\ t.type # ft)
    /\ ~(sq # <<>> /\ ~Includes(t.description, sq))

\* The .filter callback
KeepExplicitType(t, ft, sq) ==
    /\ ~(ft # "all" /\ t.type # ft)
    /\ ~(sq # <<>> /\ ~Includes(ToLowerCase(t.description), ToLowerCase(sq)))

\* The value of `comparison` in the .sort callback
CompareExplicitType(a, b, sb) ==
    CASE sb = "date" -> GetTime(a.date) - GetTime(b.date)
      [] sb = "amount" -> a.amount - b.amount
      [] sb = "description" -> LocaleCompare(a.description, b.description)
      [] OTHER -> 0

\* The .sort callback: sortOrder === 'asc' ? comparison : -comparison
SortComparatorExplicitType(a, b, sb, so) ==
    IF so = "asc" THEN CompareExplicitType(a, b, sb)
    ELSE -CompareExplicitType(a, b, sb)

TotalIncomeExplicitType(v) ==
    LET IsIncome(t) == t.type = "income"
    IN  SumSeq(Amounts(SelectSeq(v, IsIncome)))

TotalExpensesExplicitTypeAll(v) == SumSeq(Amounts(v))

TotalExpensesExplicitType(v) ==
    LET IsExpense(t) == t.type = "expense"
    IN  SumSeq(Amounts(SelectSeq(v, IsExpense)))

RowExplicitType(t) ==
    [key |-> t.id,
     txType |-> t.type,
     sign |-> IF t.type = "income" THEN "+" ELSE "-",
     displayAmount |-> t.amount]

----------------------------------------------------------------------------
(* What both revisions share: filter, stable sort, totals, rows *)

Keep(p, t, ft, sq) ==
    IF p = "signInferred" THEN KeepSignInferred(t, ft, sq)
    ELSE KeepExplicitType(t, ft, sq)

SortComparator(p, a, b, sb, so) ==
    IF p = "signInferred" THEN SortComparatorSignInferred(a, b, sb, so)
    ELSE SortComparatorExplicitType(a, b, sb, so)

\* Array.prototype.filter: a new array of the kept elements, in order
ArrayFilter(p, txs, ft, sq) ==
    LET Test(t) == Keep(p, t, ft, sq)
    IN  SelectSeq(txs, Test)

\* One step of the insertion sort: x moves left past every element that the
\* comparator places strictly after it, and stops at the first that it does
\* not.
Insert(p, s, x, sb, so) ==
    LET stop == {i \in 1..Len(s) : SortComparator(p, s[i], x, sb, so) <= 0}
        k == IF stop = {} THEN 0
             ELSE CHOOSE i \in stop : \A j \in stop : j <= i
    IN  SubSeq(s, 1, k) \o <<x>> \o SubSeq(s, k + 1, Len(s))

\* Array.prototype.sort with a comparator: a stable sort (ECMAScript 2019)
RECURSIVE ArraySort(_, _, _, _)
ArraySort(p, s, sb, so) ==
    IF s = <<>> THEN <<>>
    ELSE Insert(p, ArraySort(p, SubSeq(s, 1, Len(s) - 1), sb, so),
                s[Len(s)], sb, so)

Reverse(s) == [i \in 1..Len(s) |-> s[Len(s) + 1 - i]]

FilteredAndSortedReversing(p, txs, ft, sq, sb, so) ==
    IF so = "asc" THEN ArraySort(p, ArrayFilter(p, txs, ft, sq), sb, "asc")
    ELSE Reverse(ArraySort(p, ArrayFilter(p, txs, ft, sq), sb, "asc"))

\* filteredAndSortedTransactions = transactions.filter(...).sort(...)
FilteredAndSortedTransactions(p, txs, ft, sq, sb, so) ==
    ArraySort(p, ArrayFilter(p, txs, ft, sq), sb, so)

StateArraySortedInPlace(p, txs, sb, so) == ArraySort(p, txs, sb, so)

\* The state array after a render: .filter allocates a new array, so the
\* in-place .sort that follows works on that copy and the state array keeps
\* its elements and their order.
StateArrayAfterRender(p, txs, sb, so) == txs

TotalIncome(p, v) ==
    IF p = "signInferred" THEN TotalIncomeSignInferred(v)
    ELSE TotalIncomeExplicitType(v)

TotalExpenses(p, v) ==
    IF p = "signInferred" THEN TotalExpensesSignInferred(v)
    ELSE TotalExpensesExplicitType(v)

NetBalanceSwapped(inc, exp) == exp - inc

\* The Net Balance card: totalIncome - totalExpenses
NetBalance(inc, exp) == inc - exp

Rows(p, v) ==
    [i \in 1..Len(v) |->
        IF p = "signInferred" THEN RowSignInferred(v[i])
        ELSE RowExplicitType(v[i])]

----------------------------------------------------------------------------
(* The dashboard's totals: src/src/app/(dashboard)/page.tsx *)

\* totalIncome over allTransactions: the rows whose type is 'income'
DashboardTotalIncome(all) ==
    LET IsIncome(t) == t.type = "income"
    IN  SumSeq(Amounts(SelectSeq(all, IsIncome)))

\* totalExpenses over allTransactions: the rows whose type is 'expense'
DashboardTotalExpenses(all) ==
    LET IsExpense(t) == t.type = "expense"
    IN  SumSeq(Amounts(SelectSeq(all, IsExpense)))

----------------------------------------------------------------------------
(* The provider and the page's handlers *)

DateDescending(s) ==
    \A i \in 1..(Len(s) - 1) : GetTime(s[i].date) >= GetTime(s[i + 1].date)

\* What .from('transactions').select('*').order('date', {ascending: false})
\* can return: rows with pairwise distinct ids, newest first, rows of one
\* date in any order.
Snapshots ==
    {s \in UNION {[1..n -> Catalogue] : n \in 0..MaxLen} :
        /\ \A i, j \in 1..Len(s) : i # j => s[i].id # s[j].id
        /\ DateDescending(s)}

\* The render that follows every state update
Render(p, txs, ft, sq, sb, so) ==
    LET v == FilteredAndSortedTransactions(p, txs, ft, sq, sb, so)
    IN  /\ transactions' = StateArrayAfterRender(p, txs, sb, so)
        /\ view' = v
        /\ totalIncome' = TotalIncome(p, v)
        /\ totalExpenses' = TotalExpenses(p, v)
        /\ netBalance' = NetBalance(TotalIncome(p, v), TotalExpenses(p, v))
        /\ rows' = Rows(p, v)
NoClient == [client |-> 0]

\* The module as loaded: supabaseInstance = null
ClientIdle ==
    /\ supabaseInstance = NoClient
    /\ clientsBuilt = 0
    /\ clientReturned = {}

\* The module after the first createClient() call
ClientBuilt ==
    /\ supabaseInstance = [client |-> 1]
    /\ clientsBuilt = 1
    /\ clientReturned = {[client |-> 1]}

CreateClientAlwaysNew ==
    /\ supabaseInstance' = [client |-> clientsBuilt + 1]
    /\ clientsBuilt' = clientsBuilt + 1
    /\ clientReturned' = clientReturned \cup {supabaseInstance'}

\* createClient(): the instance if there is one, else a newly built one
CreateClient ==
    IF supabaseInstance # NoClient
    THEN /\ clientReturned' = clientReturned \cup {supabaseInstance}
         /\ UNCHANGED <<supabaseInstance, clientsBuilt>>
    ELSE /\ supabaseInstance' = [client |-> clientsBuilt + 1]
         /\ clientsBuilt' = clientsBuilt + 1
         /\ clientReturned' = clientReturned \cup {supabaseInstance'}
\* The dashboard's data state as useState leaves it, its effects not begun
DashboardNotStarted ==
    /\ txEffect = "notStarted"
    /\ acctEffect = "notStarted"
    /\ allTransactions = <<>>
    /\ recentTransactions = <<>>
    /\ loadingTransactions = TRUE
    /\ accounts = <<>>
    /\ loadingAccounts = TRUE
    /\ totalBalance = 0
    /\ totalDebts = 0
    /\ dashboardQueries = {}
\* new Date().toISOString().split('T')[0] while the page is open
Today == <<2024, 3, 1>>

\* The text a number input holds for amount n; '' is the empty sequence
AmountText(n) == <<n>>

\* parseFloat of the text of a filled number input
ParseFloat(text) == text[1]

\* The Add Transaction form as useState and a successful add leave it
FormDefaults ==
    /\ formAmount = <<>>
    /\ formDescription = <<>>
    /\ formType = "expense"
    /\ formCategory = "Online Purchases"
    /\ formDate = Today

FormClosedDefault ==
    /\ showForm = FALSE
    /\ FormDefaults
SyncIdle ==
    /\ syncing = FALSE
    /\ syncCall = "none"

\* The login form as useState leaves it
LoginFormInitial ==
    /\ isSignUp = FALSE
    /\ loginLoading = FALSE
    /\ message = ""
    /\ loginCall = "none"
    /\ oauthCall = FALSE
    /\ location = "none"

\* handleCallback has not begun
CallbackNotStarted ==
    /\ cbStep = "start"
    /\ cbCalls = {}
    /\ pushes = <<>>

\* Neither the login page nor the callback page is the mounted screen
AuthNotMounted ==
    /\ screen = "none"
    /\ LoginFormInitial
    /\ cbTokenHash = FALSE
    /\ cbType = FALSE
    /\ cbHash = FALSE
    /\ CallbackNotStarted

NoRow == [id |-> "none"]
NoFetch == [state |-> "none", data |-> <<>>]

NoEvent == [what |-> "none", alert |-> "none", console |-> FALSE]

\* A page whose session check has passed, with nothing in flight
GateOpen ==
    /\ session = TRUE
    /\ authChecked = "session"
    /\ loading = FALSE
    /\ navigatedTo = "none"

ProviderIdle ==
    /\ db = {}
    /\ requests = <<>>
    /\ saving = FALSE
    /\ insertInFlight = NoRow
    /\ deleting = {}
    /\ lastEvent = NoEvent
    /\ fetchedOnce = FALSE
    /\ newestFetch = NoFetch
NoExpenseOp == [op |-> "none", id |-> "none", amount |-> 0]

HomeNotMounted ==
    /\ home = "none"
    /\ lastExpenseOp = NoExpenseOp
    /\ expenses = <<>>
    /\ issuedIds = {}
    /\ total = 0

\* The transactions page as its first render leaves it
ViewInitial ==
    /\ page \in Pages
    /\ transactions = <<>>
    /\ lastFetched = <<>>
    /\ filterType = "all"
    /\ searchQuery = <<>>
    /\ sortBy = "date"
    /\ sortOrder = "desc"
    /\ view = FilteredAndSortedTransactions(page, <<>>, "all", <<>>, "date", "desc")
    /\ totalIncome = TotalIncome(page, view)
    /\ totalExpenses = TotalExpenses(page, view)
    /\ netBalance = NetBalance(totalIncome, totalExpenses)
    /\ rows = Rows(page, view)

Init ==
    /\ GateOpen
    /\ ClientBuilt
    /\ DashboardNotStarted
    /\ FormClosedDefault
    /\ SyncIdle
    /\ AuthNotMounted
    /\ ProviderIdle
    /\ HomeNotMounted
    /\ ViewInitial

\* fetchTransactions, the path without error: setTransactions(data || [])
FetchTransactions ==
    \E data \in Snapshots :
        /\ lastFetched' = data
        /\ Render(page, data, filterType, searchQuery, sortBy, sortOrder)
        /\ UNCHANGED <<page, filterType, searchQuery, sortBy, sortOrder>>
        /\ UNCHANGED <<gateVars, providerVars, homeVars>>
        /\ CreateClient
        /\ UNCHANGED dashVars
        /\ UNCHANGED formVars
        /\ UNCHANGED <<syncVars, authVars>>

SetFilterType ==
    \E value \in FilterTypes :
        /\ filterType' = value
        /\ Render(page, transactions, value, searchQuery, sortBy, sortOrder)
        /\ UNCHANGED <<page, lastFetched, searchQuery, sortBy, sortOrder>>
        /\ UNCHANGED <<gateVars, providerVars, homeVars>>
        /\ UNCHANGED clientVars
        /\ UNCHANGED dashVars
        /\ UNCHANGED formVars
        /\ UNCHANGED <<syncVars, authVars>>

SetSearchQuery ==
    \E value \in SearchQueries :
        /\ searchQuery' = value
        /\ Render(page, transactions, filterType, value, sortBy, sortOrder)
        /\ UNCHANGED <<page, lastFetched, filterType, sortBy, sortOrder>>
        /\ UNCHANGED <<gateVars, providerVars, homeVars>>
        /\ UNCHANGED clientVars
        /\ UNCHANGED dashVars
        /\ UNCHANGED formVars
        /\ UNCHANGED <<syncVars, authVars>>

SetSortBy ==
    \E value \in SortKeys(page) :
        /\ sortBy' = value
        /\ Render(page, transactions, filterType, searchQuery, value, sortOrder)
        /\ UNCHANGED <<page, lastFetched, filterType, searchQuery, sortOrder>>
        /\ UNCHANGED <<gateVars, providerVars, homeVars>>
        /\ UNCHANGED clientVars
        /\ UNCHANGED dashVars
        /\ UNCHANGED formVars
        /\ UNCHANGED <<syncVars, authVars>>

SetSortOrderStale ==
    \E value \in SortOrders :
        /\ sortOrder' = value
        /\ Render(page, transactions, filterType, searchQuery, sortBy, sortOrder)
        /\ UNCHANGED <<page, lastFetched, filterType, searchQuery, sortBy>>
        /\ UNCHANGED <<gateVars, providerVars, homeVars>>
        /\ UNCHANGED clientVars
        /\ UNCHANGED dashVars
        /\ UNCHANGED formVars
        /\ UNCHANGED <<syncVars, authVars>>

SetSortOrder ==
    \E value \in SortOrders :
        /\ sortOrder' = value
        /\ Render(page, transactions, filterType, searchQuery, sortBy, value)
        /\ UNCHANGED <<page, lastFetched, filterType, searchQuery, sortBy>>
        /\ UNCHANGED <<gateVars, providerVars, homeVars>>
        /\ UNCHANGED clientVars
        /\ UNCHANGED dashVars
        /\ UNCHANGED formVars
        /\ UNCHANGED <<syncVars, authVars>>

Next ==
    \/ FetchTransactions
    \/ SetFilterType
    \/ SetSearchQuery
    \/ SetSortBy
    \/ SetSortOrder

Spec == Init /\ [][Next]_vars

----------------------------------------------------------------------------
(* The life of a transactions page: session check, provider, handlers *)

MaxInFlight == 2

\* The rows the Add Transaction form submits in this specification
FormRecords == {t \in Catalogue : t.id \in {"1", "2"}}

\* The answers .order('date', {ascending: false}) can give for table S
TableOrderings(S) ==
    {s \in [1..Cardinality(S) -> S] :
        /\ \A i, j \in 1..Len(s) : i # j => s[i] # s[j]
        /\ DateDescending(s)}

Pending == [state |-> "pending", data |-> <<>>]

Answered(data) == [state |-> "answered", data |-> data]

RemoveAt(s, i) == SubSeq(s, 1, i - 1) \o SubSeq(s, i + 1, Len(s))

Event(what, alert, console) ==
    [what |-> what, alert |-> alert, console |-> console]

AddFailedMessage == "Failed to add transaction. Please try again."

DeleteFailedMessage == "Failed to delete transaction. Please try again."

\* The component is mounted and its content (not "Loading...") is rendered
ContentRendered == navigatedTo = "none" /\ ~loading

\* Calls in flight that may each still issue a fetchTransactions
InFlight ==
    Len(requests) + Cardinality(deleting)
        + (IF insertInFlight # NoRow THEN 1 ELSE 0)
\* A fetchTransactions call has just been issued: it is the newest one
Issued == [state |-> "inFlight", data |-> <<>>]

\* The call at position i of requests ends: if it is the one issued last,
\* how it ended and what it stored is remembered
Ended(i, how, data) ==
    IF i = Len(requests) /\ newestFetch.state = "inFlight"
    THEN [state |-> how, data |-> data]
    ELSE newestFetch

\* The form's fields describe row rec of the form records
FormHolds(rec) ==
    /\ ParseFloat(formAmount) = rec.amount
    /\ formDescription = rec.description
    /\ formType = rec.type
    /\ formDate = rec.date

\* handleAddTransaction's success branch: the setForm... calls, setShowForm
ResetForm ==
    /\ formAmount' = <<>>
    /\ formDescription' = <<>>
    /\ formType' = "expense"
    /\ formCategory' = "Online Purchases"
    /\ formDate' = Today
    /\ showForm' = FALSE
\* The page of transactions is the mounted screen
PageMounted == home = "none" /\ screen = "none"

PageInit ==
    /\ ViewInitial
    /\ ClientIdle
    /\ DashboardNotStarted
    /\ FormClosedDefault
    /\ SyncIdle
    /\ AuthNotMounted
    /\ HomeNotMounted
    /\ session \in BOOLEAN
    /\ authChecked = "no"
    /\ loading = TRUE
    /\ navigatedTo = "none"
    /\ db \in SUBSET FormRecords
    /\ requests = <<>>
    /\ saving = FALSE
    /\ insertInFlight = NoRow
    /\ deleting = {}
    /\ lastEvent = NoEvent
    /\ fetchedOnce = FALSE
    /\ newestFetch = NoFetch

\* The session expires or the user signs out in another tab
SessionEnds ==
    /\ session
    /\ session' = FALSE
    /\ UNCHANGED <<authChecked, loading, navigatedTo>>
    /\ UNCHANGED <<viewVars, providerVars, homeVars>>
    /\ UNCHANGED clientVars
    /\ UNCHANGED dashVars
    /\ UNCHANGED formVars
    /\ UNCHANGED <<syncVars, authVars>>

\* checkAuth of the mount effect, from getSession's answer on
CheckAuth ==
    /\ PageMounted
    /\ authChecked = "no"
    /\ IF ~session
       THEN /\ authChecked' = "nosession"
            /\ navigatedTo' = "/login"
            /\ UNCHANGED <<loading, requests, newestFetch>>
       ELSE /\ authChecked' = "session"
            /\ loading' = FALSE
            /\ requests' = Append(requests, Pending)
            /\ newestFetch' = Issued
            /\ UNCHANGED navigatedTo
    /\ UNCHANGED <<session, db, saving, insertInFlight, deleting, lastEvent,
                   fetchedOnce>>
    /\ UNCHANGED <<viewVars, homeVars>>
    /\ CreateClient
    /\ UNCHANGED dashVars
    /\ UNCHANGED formVars
    /\ UNCHANGED <<syncVars, authVars>>

\* fetchTransactions: getSession answers null, the call returns
FetchNoSession ==
    \E i \in 1..Len(requests) :
        /\ requests[i].state = "pending"
        /\ ~session
        /\ requests' = RemoveAt(requests, i)
        /\ lastEvent' = Event("fetchNoSession", "none", FALSE)
        /\ UNCHANGED <<db, saving, insertInFlight, deleting, fetchedOnce>>
        /\ UNCHANGED <<viewVars, gateVars, homeVars>>
        /\ UNCHANGED clientVars
        /\ UNCHANGED dashVars
        /\ newestFetch' = Ended(i, "noSession", <<>>)
        /\ UNCHANGED formVars
        /\ UNCHANGED <<syncVars, authVars>>

FetchFailsFallingThrough ==
    \E i \in 1..Len(requests) :
        /\ requests[i].state = "pending"
        /\ session
        /\ requests' = RemoveAt(requests, i)
        /\ lastEvent' = Event("fetchError", "none", TRUE)
        /\ lastFetched' = <<>>
        /\ Render(page, <<>>, filterType, searchQuery, sortBy, sortOrder)
        /\ UNCHANGED <<page, filterType, searchQuery, sortBy, sortOrder>>
        /\ UNCHANGED <<db, saving, insertInFlight, deleting, fetchedOnce>>
        /\ UNCHANGED <<gateVars, homeVars>>
        /\ UNCHANGED clientVars
        /\ UNCHANGED dashVars
        /\ newestFetch' = Ended(i, "failed", <<>>)
        /\ UNCHANGED formVars
        /\ UNCHANGED <<syncVars, authVars>>

\* fetchTransactions: the query answers an error: console.error, return
FetchFails ==
    \E i \in 1..Len(requests) :
        /\ requests[i].state = "pending"
        /\ session
        /\ requests' = RemoveAt(requests, i)
        /\ lastEvent' = Event("fetchError", "none", TRUE)
        /\ UNCHANGED <<db, saving, insertInFlight, deleting, fetchedOnce>>
        /\ UNCHANGED <<viewVars, gateVars, homeVars>>
        /\ UNCHANGED clientVars
        /\ UNCHANGED dashVars
        /\ newestFetch' = Ended(i, "failed", <<>>)
        /\ UNCHANGED formVars
        /\ UNCHANGED <<syncVars, authVars>>

\* The provider evaluates the query of a fetch on the table as it is now
FetchAnswered ==
    \E i \in 1..Len(requests) :
        /\ requests[i].state = "pending"
        /\ session
        /\ \E data \in TableOrderings(db) :
              requests' = [requests EXCEPT ![i] = Answered(data)]
        /\ UNCHANGED <<db, saving, insertInFlight, deleting, lastEvent,
                       fetchedOnce>>
        /\ UNCHANGED <<viewVars, gateVars, homeVars>>
        /\ UNCHANGED clientVars
        /\ UNCHANGED dashVars
        /\ UNCHANGED newestFetch
        /\ UNCHANGED formVars
        /\ UNCHANGED <<syncVars, authVars>>

\* fetchTransactions: the answer arrives: setTransactions(data || [])
FetchDelivered ==
    \E i \in 1..Len(requests) :
        /\ requests[i].state = "answered"
        /\ requests' = RemoveAt(requests, i)
        /\ lastFetched' = requests[i].data
        /\ Render(page, requests[i].data, filterType, searchQuery, sortBy,
                  sortOrder)
        /\ fetchedOnce' = TRUE
        /\ lastEvent' = Event("fetchOk", "none", FALSE)
        /\ UNCHANGED <<page, filterType, searchQuery, sortBy, sortOrder>>
        /\ UNCHANGED <<db, saving, insertInFlight, deleting>>
        /\ UNCHANGED <<gateVars, homeVars>>
        /\ UNCHANGED clientVars
        /\ UNCHANGED dashVars
        /\ newestFetch' = Ended(i, "delivered", requests[i].data)
        /\ UNCHANGED formVars
        /\ UNCHANGED <<syncVars, authVars>>

\* The '+ Add Transaction' / 'Cancel' button: setShowForm(!showForm)
ToggleForm ==
    /\ PageMounted
    /\ page = "explicitType"
    /\ ContentRendered
    /\ showForm' = ~showForm
    /\ UNCHANGED <<formAmount, formDescription, formType, formCategory,
                   formDate>>
    /\ UNCHANGED <<viewVars, gateVars, providerVars, homeVars, clientVars,
                   dashVars>>
    /\ UNCHANGED <<syncVars, authVars>>

\* The user fills in the open form with one row: the onChange setters
FillForm ==
    /\ PageMounted
    /\ page = "explicitType"
    /\ ContentRendered
    /\ showForm
    /\ ~saving
    /\ \E rec \in FormRecords :
          /\ formAmount' = AmountText(rec.amount)
          /\ formDescription' = rec.description
          /\ formType' = rec.type
          /\ formDate' = rec.date
    /\ formCategory' = "Food"
    /\ UNCHANGED showForm
    /\ UNCHANGED <<viewVars, gateVars, providerVars, homeVars, clientVars,
                   dashVars>>
    /\ UNCHANGED <<syncVars, authVars>>

AddFailsResetting ==
    /\ insertInFlight # NoRow
    /\ session
    /\ saving' = FALSE
    /\ insertInFlight' = NoRow
    /\ lastEvent' = Event("insertError", AddFailedMessage, TRUE)
    /\ UNCHANGED <<db, requests, deleting, fetchedOnce, newestFetch>>
    /\ UNCHANGED <<viewVars, gateVars, homeVars, clientVars, dashVars>>
    /\ ResetForm
    /\ UNCHANGED <<syncVars, authVars>>

\* handleAddTransaction up to its first await: setSaving(true)
HandleAddTransaction ==
    /\ PageMounted
    /\ page = "explicitType"
    /\ ContentRendered
    /\ ~saving
    /\ InFlight < MaxInFlight
    /\ showForm
    /\ formAmount # <<>>
    /\ \E rec \in FormRecords \ db :
          /\ FormHolds(rec)
          /\ insertInFlight' = rec
    /\ saving' = TRUE
    /\ UNCHANGED <<db, requests, deleting, lastEvent, fetchedOnce>>
    /\ UNCHANGED <<viewVars, gateVars, homeVars>>
    /\ CreateClient
    /\ UNCHANGED dashVars
    /\ UNCHANGED newestFetch
    /\ UNCHANGED formVars
    /\ UNCHANGED <<syncVars, authVars>>

\* handleAddTransaction: getSession answers null: setSaving(false), return
AddNoSession ==
    /\ insertInFlight # NoRow
    /\ ~session
    /\ saving' = FALSE
    /\ insertInFlight' = NoRow
    /\ lastEvent' = Event("insertNoSession", "none", FALSE)
    /\ UNCHANGED <<db, requests, deleting, fetchedOnce>>
    /\ UNCHANGED <<viewVars, gateVars, homeVars>>
    /\ UNCHANGED clientVars
    /\ UNCHANGED dashVars
    /\ UNCHANGED newestFetch
    /\ UNCHANGED formVars
    /\ UNCHANGED <<syncVars, authVars>>

\* handleAddTransaction: the insert answers an error: console.error, alert
AddFails ==
    /\ insertInFlight # NoRow
    /\ session
    /\ saving' = FALSE
    /\ insertInFlight' = NoRow
    /\ lastEvent' = Event("insertError", AddFailedMessage, TRUE)
    /\ UNCHANGED <<db, requests, deleting, fetchedOnce>>
    /\ UNCHANGED <<viewVars, gateVars, homeVars>>
    /\ UNCHANGED clientVars
    /\ UNCHANGED dashVars
    /\ UNCHANGED newestFetch
    /\ UNCHANGED formVars
    /\ UNCHANGED <<syncVars, authVars>>

AddSucceedsNoRefetch ==
    /\ insertInFlight # NoRow
    /\ session
    /\ db' = db \cup {insertInFlight}
    /\ saving' = FALSE
    /\ insertInFlight' = NoRow
    /\ lastEvent' = Event("insertOk", "none", FALSE)
    /\ UNCHANGED <<requests, deleting, fetchedOnce>>
    /\ UNCHANGED <<viewVars, gateVars, homeVars>>
    /\ UNCHANGED clientVars
    /\ UNCHANGED dashVars
    /\ UNCHANGED newestFetch
    /\ ResetForm
    /\ UNCHANGED <<syncVars, authVars>>

\* handleAddTransaction: the insert succeeds: fetchTransactions()
AddSucceeds ==
    /\ insertInFlight # NoRow
    /\ session
    /\ db' = db \cup {insertInFlight}
    /\ requests' = Append(requests, Pending)
    /\ saving' = FALSE
    /\ insertInFlight' = NoRow
    /\ lastEvent' = Event("insertOk", "none", FALSE)
    /\ UNCHANGED <<deleting, fetchedOnce>>
    /\ UNCHANGED <<viewVars, gateVars, homeVars>>
    /\ CreateClient
    /\ UNCHANGED dashVars
    /\ newestFetch' = Issued
    /\ ResetForm
    /\ UNCHANGED <<syncVars, authVars>>

\* handleDeleteTransaction(id) of a row's Delete button, confirm() accepted
HandleDeleteTransaction ==
    /\ PageMounted
    /\ page = "explicitType"
    /\ ContentRendered
    /\ InFlight < MaxInFlight
    /\ \E i \in 1..Len(rows) :
          /\ rows[i].key \notin deleting
          /\ deleting' = deleting \cup {rows[i].key}
    /\ UNCHANGED <<db, requests, saving, insertInFlight, lastEvent,
                   fetchedOnce>>
    /\ UNCHANGED <<viewVars, gateVars, homeVars>>
    /\ CreateClient
    /\ UNCHANGED dashVars
    /\ UNCHANGED newestFetch
    /\ UNCHANGED formVars
    /\ UNCHANGED <<syncVars, authVars>>

\* handleDeleteTransaction: the delete answers an error: console.error, alert
DeleteFails ==
    \E id \in deleting :
        /\ deleting' = deleting \ {id}
        /\ lastEvent' = Event("deleteError", DeleteFailedMessage, TRUE)
        /\ UNCHANGED <<db, requests, saving, insertInFlight, fetchedOnce>>
        /\ UNCHANGED <<viewVars, gateVars, homeVars>>
        /\ UNCHANGED clientVars
        /\ UNCHANGED dashVars
        /\ UNCHANGED newestFetch
        /\ UNCHANGED formVars
        /\ UNCHANGED <<syncVars, authVars>>

\* handleDeleteTransaction: the delete answers no error: fetchTransactions().
\* Without a session row-level security lets the delete touch no row.
DeleteSucceeds ==
    \E id \in deleting :
        /\ deleting' = deleting \ {id}
        /\ db' = IF session THEN {t \in db : t.id # id} ELSE db
        /\ requests' = Append(requests, Pending)
        /\ lastEvent' = Event("deleteOk", "none", FALSE)
        /\ UNCHANGED <<saving, insertInFlight, fetchedOnce>>
        /\ UNCHANGED <<viewVars, gateVars, homeVars>>
        /\ CreateClient
        /\ UNCHANGED dashVars
        /\ newestFetch' = Issued
        /\ UNCHANGED formVars
        /\ UNCHANGED <<syncVars, authVars>>

SyncReadyMessage == "Sync functionality ready for Teller.io integration"

\* handleSyncTransactions up to its await: setSyncing(true), getSession
HandleSyncTransactions ==
    /\ PageMounted
    /\ page = "signInferred"
    /\ ContentRendered
    /\ ~syncing
    /\ syncing' = TRUE
    /\ syncCall' = "getSession"
    /\ CreateClient
    /\ UNCHANGED <<viewVars, gateVars, providerVars, homeVars, dashVars,
                   formVars, authVars>>

SyncNoSessionKeepsSyncing ==
    /\ syncCall = "getSession"
    /\ ~session
    /\ syncCall' = "none"
    /\ lastEvent' = Event("syncNoSession", "none", FALSE)
    /\ UNCHANGED syncing
    /\ UNCHANGED <<db, requests, saving, insertInFlight, deleting, fetchedOnce,
                   newestFetch>>
    /\ UNCHANGED <<viewVars, gateVars, homeVars, clientVars, dashVars,
                   formVars, authVars>>

\* handleSyncTransactions: if (!session) { setSyncing(false); return }
SyncNoSession ==
    /\ syncCall = "getSession"
    /\ ~session
    /\ syncing' = FALSE
    /\ syncCall' = "none"
    /\ lastEvent' = Event("syncNoSession", "none", FALSE)
    /\ UNCHANGED <<db, requests, saving, insertInFlight, deleting, fetchedOnce,
                   newestFetch>>
    /\ UNCHANGED <<viewVars, gateVars, homeVars, clientVars, dashVars,
                   formVars, authVars>>

\* handleSyncTransactions with a session: the alert, then setSyncing(false)
SyncReady ==
    /\ syncCall = "getSession"
    /\ session
    /\ syncing' = FALSE
    /\ syncCall' = "none"
    /\ lastEvent' = Event("syncReady", SyncReadyMessage, FALSE)
    /\ UNCHANGED <<db, requests, saving, insertInFlight, deleting, fetchedOnce,
                   newestFetch>>
    /\ UNCHANGED <<viewVars, gateVars, homeVars, clientVars, dashVars,
                   formVars, authVars>>

PageNext ==
    \/ SessionEnds
    \/ CheckAuth
    \/ FetchNoSession
    \/ FetchFails
    \/ FetchAnswered
    \/ FetchDelivered
    \/ ToggleForm
    \/ FillForm
    \/ HandleAddTransaction
    \/ AddNoSession
    \/ AddFails
    \/ AddSucceeds
    \/ HandleDeleteTransaction
    \/ DeleteFails
    \/ DeleteSucceeds
    \/ HandleSyncTransactions
    \/ SyncNoSession
    \/ SyncReady

SpecPage == PageInit /\ [][PageNext]_vars

----------------------------------------------------------------------------
(* Home in its three revisions: session check and the local expense list *)

MaxIds == 3

Homes == {"local", "gated", "dashboard"}

UUIDList == <<"u1", "u2", "u3", "u4", "u5">>

UUIDs == {UUIDList[i] : i \in 1..Len(UUIDList)}

\* parseFloat(amount) of the form's amount field
ExpenseAmounts == {5, 20}

IdFromListLength(issued) == {UUIDList[Len(expenses) + 1]}

\* crypto.randomUUID(): some identifier it has not returned before
RandomUUID(issued) == UUIDs \ issued

WithoutIdOrLast(list, id) ==
    IF \E i \in 1..Len(list) : list[i].id = id
    THEN LET Test(e) == e.id # id
         IN  SelectSeq(list, Test)
    ELSE SubSeq(list, 1, Len(list) - 1)

\* expenses.filter(expense => expense.id !== id)
WithoutId(list, id) ==
    LET Test(e) == e.id # id
    IN  SelectSeq(list, Test)
\* Rows of the accounts table: one of each kind the totals tell apart
AccountCatalogue ==
    { [id |-> "a1", type |-> "checking", balance |-> 100],
      [id |-> "a2", type |-> "credit_card", balance |-> -50],
      [id |-> "a3", type |-> "savings", balance |-> -20],
      [id |-> "a4", type |-> "credit_card", balance |-> 30],
      [id |-> "a5", type |-> "credit_card", balance |-> -25] }

Account(id) == CHOOSE a \in AccountCatalogue : a.id = id

\* Answers of from('accounts').select('*').order('created_at', ...)
AccountSnapshots ==
    { <<>>,
      <<Account("a1"), Account("a2")>>,
      <<Account("a3"), Account("a4")>>,
      <<Account("a5"), Account("a3"), Account("a2")>>,
      <<Account("a2"), Account("a1"), Account("a4"), Account("a5")>> }

Balances(accts) == [i \in 1..Len(accts) |-> accts[i].balance]

AbsBalances(accts) == [i \in 1..Len(accts) |-> Abs(accts[i].balance)]

\* accounts.reduce((sum, acc) => sum + acc.balance, 0)
TotalBalance(accts) == SumSeq(Balances(accts))

TotalDebtsAnyType(accts) ==
    LET Owed(acc) == acc.balance < 0
    IN  SumSeq(AbsBalances(SelectSeq(accts, Owed)))

\* accounts.filter(acc => acc.type === 'credit_card' && acc.balance < 0)
\*         .reduce((sum, acc) => sum + Math.abs(acc.balance), 0)
TotalDebts(accts) ==
    LET Owed(acc) == acc.type = "credit_card" /\ acc.balance < 0
    IN  SumSeq(AbsBalances(SelectSeq(accts, Owed)))

\* .limit(3)
Limit3(data) == SubSeq(data, 1, Min(3, Len(data)))

\* What row-level security lets a select on transactions answer
VisibleTransactions == IF session THEN TableOrderings(db) ELSE {<<>>}

\* What row-level security lets a select on accounts answer
VisibleAccounts == IF session THEN AccountSnapshots ELSE {<<>>}

Query(name) == [query |-> name, auth |-> authChecked]

HomeInit ==
    /\ ViewInitial
    /\ page = "explicitType"
    /\ ClientIdle
    /\ DashboardNotStarted
    /\ FormClosedDefault
    /\ SyncIdle
    /\ AuthNotMounted
    /\ home \in Homes
    /\ db \in IF home = "dashboard" THEN {{}, FormRecords} ELSE {{}}
    /\ requests = <<>>
    /\ saving = FALSE
    /\ insertInFlight = NoRow
    /\ deleting = {}
    /\ lastEvent = NoEvent
    /\ fetchedOnce = FALSE
    /\ newestFetch = NoFetch
    /\ session \in BOOLEAN
    /\ authChecked = "no"
    /\ loading = (home # "local")
    /\ navigatedTo = "none"
    /\ expenses = <<>>
    /\ issuedIds = {}
    /\ total = 0
    /\ lastExpenseOp = NoExpenseOp

\* checkAuth of the mount effect of the revisions that have one
HomeCheckAuth ==
    /\ home \in {"gated", "dashboard"}
    /\ home = "dashboard" => txEffect # "notStarted"
    /\ authChecked = "no"
    /\ IF ~session
       THEN /\ authChecked' = "nosession"
            /\ navigatedTo' = "/login"
            /\ UNCHANGED loading
       ELSE /\ authChecked' = "session"
            /\ loading' = FALSE
            /\ UNCHANGED navigatedTo
    /\ UNCHANGED session
    /\ UNCHANGED <<viewVars, providerVars, homeVars>>
    /\ CreateClient
    /\ UNCHANGED dashVars
    /\ UNCHANGED formVars
    /\ UNCHANGED <<syncVars, authVars>>

\* handleAddExpense, with the re-render that recomputes total
HandleAddExpense ==
    /\ home = "local"
    /\ ContentRendered
    /\ Cardinality(issuedIds) < MaxIds
    /\ \E id \in RandomUUID(issuedIds), amount \in ExpenseAmounts :
          /\ expenses' = Append(expenses, [id |-> id, amount |-> amount])
          /\ issuedIds' = issuedIds \cup {id}
          /\ lastExpenseOp' = [op |-> "add", id |-> id, amount |-> amount]
    /\ total' = SumSeq(Amounts(expenses'))
    /\ UNCHANGED home
    /\ UNCHANGED <<viewVars, gateVars, providerVars>>
    /\ UNCHANGED clientVars
    /\ UNCHANGED dashVars
    /\ UNCHANGED formVars
    /\ UNCHANGED <<syncVars, authVars>>

\* handleDeleteExpense(id): the Delete button of a listed expense, or a call
\* with the id of an expense that is no longer in the list
HandleDeleteExpense ==
    /\ home = "local"
    /\ ContentRendered
    /\ \E id \in issuedIds :
          /\ expenses' = WithoutId(expenses, id)
          /\ lastExpenseOp' = [op |-> "delete", id |-> id, amount |-> 0]
    /\ total' = SumSeq(Amounts(expenses'))
    /\ UNCHANGED <<home, issuedIds>>
    /\ UNCHANGED <<viewVars, gateVars, providerVars>>
    /\ UNCHANGED clientVars
    /\ UNCHANGED dashVars
    /\ UNCHANGED formVars
    /\ UNCHANGED <<syncVars, authVars>>

\* The dashboard's two data effects begin in the mount commit: each issues
\* its first query at once, while checkAuth still awaits getSession
DashboardEffectsStart ==
    /\ home = "dashboard"
    /\ txEffect = "notStarted"
    /\ txEffect' = "allQuery"
    /\ acctEffect' = "query"
    /\ dashboardQueries' =
          dashboardQueries \cup {Query("allTransactions"), Query("accounts")}
    /\ CreateClient
    /\ UNCHANGED <<allTransactions, recentTransactions, loadingTransactions,
                   accounts, loadingAccounts, totalBalance, totalDebts>>
    /\ UNCHANGED <<viewVars, gateVars, providerVars, homeVars>>
    /\ UNCHANGED formVars
    /\ UNCHANGED <<syncVars, authVars>>

\* fetchTransactions effect: query 1 answers an error; query 2 is issued
DashboardAllTransactionsFails ==
    /\ txEffect = "allQuery"
    /\ navigatedTo = "none"
    /\ lastEvent' = Event("fetchError", "none", TRUE)
    /\ txEffect' = "recentQuery"
    /\ dashboardQueries' = dashboardQueries \cup {Query("recentTransactions")}
    /\ UNCHANGED <<acctEffect, allTransactions, recentTransactions,
                   loadingTransactions, accounts, loadingAccounts,
                   totalBalance, totalDebts>>
    /\ UNCHANGED <<db, requests, saving, insertInFlight, deleting,
                   fetchedOnce>>
    /\ UNCHANGED <<viewVars, gateVars, homeVars, clientVars>>
    /\ UNCHANGED newestFetch
    /\ UNCHANGED formVars
    /\ UNCHANGED <<syncVars, authVars>>

\* fetchTransactions effect: query 1 answers data; query 2 is issued
DashboardAllTransactionsDelivered ==
    /\ txEffect = "allQuery"
    /\ navigatedTo = "none"
    /\ \E data \in VisibleTransactions : allTransactions' = data
    /\ txEffect' = "recentQuery"
    /\ dashboardQueries' = dashboardQueries \cup {Query("recentTransactions")}
    /\ UNCHANGED <<acctEffect, recentTransactions, loadingTransactions,
                   accounts, loadingAccounts, totalBalance, totalDebts>>
    /\ UNCHANGED <<viewVars, gateVars, providerVars, homeVars, clientVars>>
    /\ UNCHANGED formVars
    /\ UNCHANGED <<syncVars, authVars>>

\* fetchTransactions effect: query 2 answers an error
DashboardRecentFails ==
    /\ txEffect = "recentQuery"
    /\ navigatedTo = "none"
    /\ lastEvent' = Event("fetchError", "none", TRUE)
    /\ loadingTransactions' = FALSE
    /\ txEffect' = "done"
    /\ UNCHANGED <<acctEffect, allTransactions, recentTransactions, accounts,
                   loadingAccounts, totalBalance, totalDebts,
                   dashboardQueries>>
    /\ UNCHANGED <<db, requests, saving, insertInFlight, deleting,
                   fetchedOnce>>
    /\ UNCHANGED <<viewVars, gateVars, homeVars, clientVars>>
    /\ UNCHANGED newestFetch
    /\ UNCHANGED formVars
    /\ UNCHANGED <<syncVars, authVars>>

\* fetchTransactions effect: query 2 answers data
DashboardRecentDelivered ==
    /\ txEffect = "recentQuery"
    /\ navigatedTo = "none"
    /\ \E data \in VisibleTransactions : recentTransactions' = Limit3(data)
    /\ loadingTransactions' = FALSE
    /\ txEffect' = "done"
    /\ UNCHANGED <<acctEffect, allTransactions, accounts, loadingAccounts,
                   totalBalance, totalDebts, dashboardQueries>>
    /\ UNCHANGED <<viewVars, gateVars, providerVars, homeVars, clientVars>>
    /\ UNCHANGED formVars
    /\ UNCHANGED <<syncVars, authVars>>

\* fetchAccounts effect: the query answers an error
DashboardAccountsFails ==
    /\ acctEffect = "query"
    /\ navigatedTo = "none"
    /\ lastEvent' = Event("accountsError", "none", TRUE)
    /\ loadingAccounts' = FALSE
    /\ acctEffect' = "done"
    /\ UNCHANGED <<txEffect, allTransactions, recentTransactions,
                   loadingTransactions, accounts, totalBalance, totalDebts,
                   dashboardQueries>>
    /\ UNCHANGED <<db, requests, saving, insertInFlight, deleting,
                   fetchedOnce>>
    /\ UNCHANGED <<viewVars, gateVars, homeVars, clientVars>>
    /\ UNCHANGED newestFetch
    /\ UNCHANGED formVars
    /\ UNCHANGED <<syncVars, authVars>>

\* fetchAccounts effect: the query answers data; the render after it
DashboardAccountsDelivered ==
    /\ acctEffect = "query"
    /\ navigatedTo = "none"
    /\ \E data \in VisibleAccounts : accounts' = data
    /\ totalBalance' = TotalBalance(accounts')
    /\ totalDebts' = TotalDebts(accounts')
    /\ loadingAccounts' = FALSE
    /\ acctEffect' = "done"
    /\ UNCHANGED <<txEffect, allTransactions, recentTransactions,
                   loadingTransactions, dashboardQueries>>
    /\ UNCHANGED <<viewVars, gateVars, providerVars, homeVars, clientVars>>
    /\ UNCHANGED formVars
    /\ UNCHANGED <<syncVars, authVars>>

HomeNext ==
    \/ SessionEnds
    \/ HomeCheckAuth
    \/ DashboardEffectsStart
    \/ DashboardAllTransactionsFails
    \/ DashboardAllTransactionsDelivered
    \/ DashboardRecentFails
    \/ DashboardRecentDelivered
    \/ DashboardAccountsFails
    \/ DashboardAccountsDelivered
    \/ HandleAddExpense
    \/ HandleDeleteExpense

SpecHome == HomeInit /\ [][HomeNext]_vars

----------------------------------------------------------------------------
(* The auth screens: the login form and the auth callback page *)

AuthScreens == {"login", "callback"}

CheckEmailMessage == "Check your email to confirm your account."

SuccessMessage == "Success!"

\* error.message of a failed auth call
AuthErrorMessages(call) ==
    IF call = "signUp"
    THEN {"User already registered", "Password should be at least 6 characters"}
    ELSE {"Invalid login credentials"}

AuthInit ==
    /\ ViewInitial
    /\ page = "explicitType"
    /\ ClientIdle
    /\ DashboardNotStarted
    /\ FormClosedDefault
    /\ SyncIdle
    /\ ProviderIdle
    /\ HomeNotMounted
    /\ session \in BOOLEAN
    /\ authChecked = "no"
    /\ loading = TRUE
    /\ navigatedTo = "none"
    /\ screen \in AuthScreens
    /\ LoginFormInitial
    /\ cbTokenHash \in (IF screen = "callback" THEN BOOLEAN ELSE {FALSE})
    /\ cbType \in (IF screen = "callback" THEN BOOLEAN ELSE {FALSE})
    /\ cbHash \in (IF screen = "callback" THEN BOOLEAN ELSE {FALSE})
    /\ CallbackNotStarted

\* The "Sign up" / "Login" link under the form: setIsSignUp(!isSignUp)
ToggleSignUp ==
    /\ screen = "login"
    /\ location = "none"
    /\ isSignUp' = ~isSignUp
    /\ UNCHANGED <<screen, loginLoading, message, loginCall, location,
                   oauthCall,
                   cbTokenHash, cbType, cbHash, cbStep, cbCalls, pushes>>
    /\ UNCHANGED <<viewVars, gateVars, providerVars, homeVars, clientVars,
                   dashVars, formVars, syncVars>>

\* handleSubmit up to its await: setLoading(true), setMessage(""), the call
\* chosen by isSignUp
HandleSubmit ==
    /\ screen = "login"
    /\ location = "none"
    /\ ~loginLoading
    /\ loginLoading' = TRUE
    /\ message' = ""
    /\ loginCall' = IF isSignUp THEN "signUp" ELSE "signInWithPassword"
    /\ CreateClient
    /\ UNCHANGED <<screen, isSignUp, oauthCall, location, cbTokenHash,
                   cbType, cbHash, cbStep, cbCalls, pushes>>
    /\ UNCHANGED <<viewVars, gateVars, providerVars, homeVars, dashVars,
                   formVars, syncVars>>

SubmitFailsRedirecting ==
    /\ loginCall # "none"
    /\ \E text \in AuthErrorMessages(loginCall) : message' = text
    /\ location' = IF loginCall = "signInWithPassword" THEN "/" ELSE location
    /\ loginLoading' = FALSE
    /\ loginCall' = "none"
    /\ UNCHANGED <<screen, isSignUp, oauthCall, cbTokenHash, cbType, cbHash,
                   cbStep, cbCalls, pushes>>
    /\ UNCHANGED <<viewVars, gateVars, providerVars, homeVars, clientVars,
                   dashVars, formVars, syncVars>>

\* handleSubmit: the call answers an error: setMessage(error.message)
SubmitFails ==
    /\ loginCall # "none"
    /\ \E text \in AuthErrorMessages(loginCall) : message' = text
    /\ loginLoading' = FALSE
    /\ loginCall' = "none"
    /\ UNCHANGED <<screen, isSignUp, oauthCall, location, cbTokenHash,
                   cbType, cbHash, cbStep, cbCalls, pushes>>
    /\ UNCHANGED <<viewVars, gateVars, providerVars, homeVars, clientVars,
                   dashVars, formVars, syncVars>>

\* handleSubmit: the call answers no error; isSignUp is the value the
\* handler's closure holds, the one that chose the call
SubmitSucceeds ==
    /\ loginCall # "none"
    /\ IF loginCall = "signUp"
       THEN /\ message' = CheckEmailMessage
            /\ UNCHANGED <<location, session>>
       ELSE /\ message' = SuccessMessage
            /\ location' = "/"
            /\ session' = TRUE
    /\ loginLoading' = FALSE
    /\ loginCall' = "none"
    /\ UNCHANGED <<screen, isSignUp, oauthCall, cbTokenHash, cbType, cbHash,
                   cbStep, cbCalls, pushes>>
    /\ UNCHANGED <<authChecked, loading, navigatedTo>>
    /\ UNCHANGED <<viewVars, providerVars, homeVars, clientVars, dashVars,
                   formVars, syncVars>>

OAuthErrorMessages == {"Unsupported provider: provider is not enabled"}

\* handleOAuthLogin up to its await: signInWithOAuth is called
HandleOAuthLogin ==
    /\ screen = "login"
    /\ location = "none"
    /\ ~oauthCall
    /\ oauthCall' = TRUE
    /\ CreateClient
    /\ UNCHANGED <<screen, isSignUp, loginLoading, message, loginCall,
                   location, cbTokenHash, cbType, cbHash, cbStep, cbCalls,
                   pushes>>
    /\ UNCHANGED <<viewVars, gateVars, providerVars, homeVars, dashVars,
                   formVars, syncVars>>

\* handleOAuthLogin: signInWithOAuth answers an error: setMessage
OAuthFails ==
    /\ oauthCall
    /\ location = "none"
    /\ oauthCall' = FALSE
    /\ \E text \in OAuthErrorMessages : message' = text
    /\ UNCHANGED <<screen, isSignUp, loginLoading, loginCall, location,
                   cbTokenHash, cbType, cbHash, cbStep, cbCalls, pushes>>
    /\ UNCHANGED <<viewVars, gateVars, providerVars, homeVars, clientVars,
                   dashVars, formVars, syncVars>>

\* handleOAuthLogin: signInWithOAuth answers no error; the browser leaves for
\* the provider's page
OAuthRedirects ==
    /\ oauthCall
    /\ location = "none"
    /\ oauthCall' = FALSE
    /\ location' = "provider"
    /\ UNCHANGED <<screen, isSignUp, loginLoading, message, loginCall,
                   cbTokenHash, cbType, cbHash, cbStep, cbCalls, pushes>>
    /\ UNCHANGED <<viewVars, gateVars, providerVars, homeVars, clientVars,
                   dashVars, formVars, syncVars>>

VerificationFailedUrl == "/login?error=verification_failed"

AuthFailedUrl == "/login?error=auth_failed"

\* handleCallback up to its first await, or to its end when it awaits nothing
HandleCallback ==
    /\ screen = "callback"
    /\ cbStep = "start"
    /\ CreateClient
    /\ IF cbTokenHash /\ cbType
       THEN /\ cbCalls' = cbCalls \cup {"verifyOtp"}
            /\ cbStep' = "verifyOtp"
            /\ UNCHANGED <<pushes, lastEvent>>
       ELSE IF cbHash
            THEN /\ cbCalls' = cbCalls \cup {"getSession"}
                 /\ cbStep' = "getSession"
                 /\ UNCHANGED <<pushes, lastEvent>>
            ELSE /\ pushes' = Append(pushes, "/")
                 /\ cbStep' = "done"
                 /\ lastEvent' = Event("noTokens", "none", FALSE)
                 /\ UNCHANGED cbCalls
    /\ UNCHANGED <<screen, isSignUp, loginLoading, message, loginCall,
                   oauthCall, location, cbTokenHash, cbType, cbHash>>
    /\ UNCHANGED <<db, requests, saving, insertInFlight, deleting, fetchedOnce,
                   newestFetch>>
    /\ UNCHANGED <<viewVars, gateVars, homeVars, dashVars, formVars, syncVars>>

VerifyOtpFailsFallingThrough ==
    /\ cbStep = "verifyOtp"
    /\ lastEvent' = Event("verifyError", "none", TRUE)
    /\ pushes' = pushes \o <<VerificationFailedUrl, "/">>
    /\ cbStep' = "done"
    /\ UNCHANGED <<screen, isSignUp, loginLoading, message, loginCall,
                   oauthCall, location, cbTokenHash, cbType, cbHash, cbCalls>>
    /\ UNCHANGED <<db, requests, saving, insertInFlight, deleting, fetchedOnce,
                   newestFetch>>
    /\ UNCHANGED <<viewVars, gateVars, homeVars, clientVars, dashVars,
                   formVars, syncVars>>

\* handleCallback: verifyOtp answers an error
VerifyOtpFails ==
    /\ cbStep = "verifyOtp"
    /\ lastEvent' = Event("verifyError", "none", TRUE)
    /\ pushes' = Append(pushes, VerificationFailedUrl)
    /\ cbStep' = "done"
    /\ UNCHANGED <<screen, isSignUp, loginLoading, message, loginCall,
                   oauthCall, location, cbTokenHash, cbType, cbHash, cbCalls>>
    /\ UNCHANGED <<db, requests, saving, insertInFlight, deleting, fetchedOnce,
                   newestFetch>>
    /\ UNCHANGED <<viewVars, gateVars, homeVars, clientVars, dashVars,
                   formVars, syncVars>>

\* handleCallback: verifyOtp answers no error; the provider holds a session
VerifyOtpSucceeds ==
    /\ cbStep = "verifyOtp"
    /\ lastEvent' = Event("verifyOk", "none", FALSE)
    /\ pushes' = Append(pushes, "/")
    /\ cbStep' = "done"
    /\ session' = TRUE
    /\ UNCHANGED <<authChecked, loading, navigatedTo>>
    /\ UNCHANGED <<screen, isSignUp, loginLoading, message, loginCall,
                   oauthCall, location, cbTokenHash, cbType, cbHash, cbCalls>>
    /\ UNCHANGED <<db, requests, saving, insertInFlight, deleting, fetchedOnce,
                   newestFetch>>
    /\ UNCHANGED <<viewVars, homeVars, clientVars, dashVars, formVars,
                   syncVars>>

\* handleCallback: getSession answers an error
CallbackSessionFails ==
    /\ cbStep = "getSession"
    /\ lastEvent' = Event("sessionError", "none", TRUE)
    /\ pushes' = Append(pushes, AuthFailedUrl)
    /\ cbStep' = "done"
    /\ UNCHANGED <<screen, isSignUp, loginLoading, message, loginCall,
                   oauthCall, location, cbTokenHash, cbType, cbHash, cbCalls>>
    /\ UNCHANGED <<db, requests, saving, insertInFlight, deleting, fetchedOnce,
                   newestFetch>>
    /\ UNCHANGED <<viewVars, gateVars, homeVars, clientVars, dashVars,
                   formVars, syncVars>>

\* handleCallback: getSession answers data: to '/' with a session, else to
\* /login
CallbackSessionAnswers ==
    /\ cbStep = "getSession"
    /\ lastEvent' = Event(IF session THEN "sessionFound" ELSE "sessionNone",
                          "none", FALSE)
    /\ pushes' = Append(pushes, IF session THEN "/" ELSE "/login")
    /\ cbStep' = "done"
    /\ UNCHANGED <<screen, isSignUp, loginLoading, message, loginCall,
                   oauthCall, location, cbTokenHash, cbType, cbHash, cbCalls>>
    /\ UNCHANGED <<db, requests, saving, insertInFlight, deleting, fetchedOnce,
                   newestFetch>>
    /\ UNCHANGED <<viewVars, gateVars, homeVars, clientVars, dashVars,
                   formVars, syncVars>>

AuthNext ==
    \/ SessionEnds
    \/ ToggleSignUp
    \/ HandleSubmit
    \/ SubmitFails
    \/ SubmitSucceeds
    \/ HandleOAuthLogin
    \/ OAuthFails
    \/ OAuthRedirects
    \/ HandleCallback
    \/ VerifyOtpFails
    \/ VerifyOtpSucceeds
    \/ CallbackSessionFails
    \/ CallbackSessionAnswers

SpecAuth == AuthInit /\ [][AuthNext]_vars

----------------------------------------------------------------------------
(* The application: whichever screen is open, with its asynchronous calls
   answered *)

AppInit == PageInit \/ HomeInit \/ AuthInit

AppNext == PageNext \/ HomeNext \/ AuthNext

SpecApp == AppInit /\ [][AppNext]_vars

\* Every call a handler awaits is answered
CallsReturn ==
    /\ WF_vars(AddNoSession \/ AddFails \/ AddSucceeds)
    /\ WF_vars(SyncNoSession \/ SyncReady)
    /\ WF_vars(SubmitFails \/ SubmitSucceeds)
    /\ WF_vars(DashboardEffectsStart)
    /\ WF_vars(DashboardAllTransactionsFails
                  \/ DashboardAllTransactionsDelivered)
    /\ WF_vars(DashboardRecentFails \/ DashboardRecentDelivered)

FairSpecApp == SpecApp /\ CallsReturn

----------------------------------------------------------------------------
(* Vocabulary of the properties, stated without the page's own operators *)

Range(s) == {s[i] : i \in 1..Len(s)}

\* Index of record t in sequence s (ids are pairwise distinct)
PositionIn(s, t) == CHOOSE i \in 1..Len(s) : s[i].id = t.id

\* The polarity the mounted page derives for a record
DerivedPolarity(t) ==
    IF page = "signInferred"
    THEN (IF t.amount < 0 THEN "income" ELSE "expense")
    ELSE t.type

\* q occurs in d as a substring once both are lower-cased
ContainsIgnoringCase(d, q) ==
    \E off \in 0..(Len(d) - Len(q)) :
        \A k \in 1..Len(q) : LowerChar(d[off + k]) = LowerChar(q[k])

MatchesFilter(t) ==
    /\ filterType = "all" \/ DerivedPolarity(t) = filterType
    /\ searchQuery = <<>> \/ ContainsIgnoringCase(t.description, searchQuery)

\* Sum of the magnitudes of the amounts of the records of s of polarity cls
MagnitudeSum(s, cls) ==
    LET f[i \in 0..Len(s)] ==
            IF i = 0 THEN 0
            ELSE f[i - 1] + (IF DerivedPolarity(s[i]) = cls
                             THEN Abs(s[i].amount) ELSE 0)
    IN  f[Len(s)]

\* Calendar order of two dates <<y, m, d>>
DateLeq(d1, d2) ==
    \/ d1[1] < d2[1]
    \/ d1[1] = d2[1] /\ d1[2] < d2[2]
    \/ d1[1] = d2[1] /\ d1[2] = d2[2] /\ d1[3] <= d2[3]

\* a's key is less than or equal to b's key, for the chosen sort key
KeyLeq(a, b) ==
    CASE sortBy = "date" -> DateLeq(a.date, b.date)
      [] sortBy = "amount" ->
            IF page = "signInferred" THEN Abs(a.amount) <= Abs(b.amount)
            ELSE a.amount <= b.amount
      [] OTHER -> LocaleCompare(a.description, b.description) <= 0

KeyEqual(a, b) == KeyLeq(a, b) /\ KeyLeq(b, a)

----------------------------------------------------------------------------
\* C1: a transaction is in the view if and only if it passes the type filter
\* (filterType is 'all' or equals its derived polarity) and the search
\* (searchQuery is empty or occurs in its description, case-insensitively);
\* nothing else is added and nothing is listed twice.
C1_FilterExact ==
    /\ Range(view) = {t \in Range(transactions) : MatchesFilter(t)}
    /\ Len(view) = Cardinality(Range(view))

C1_Witness ==
    /\ filterType # "all"
    /\ searchQuery = <<"R", "E">>
    /\ Len(view) >= 1
    /\ \E t \in Range(transactions) :
          /\ t \notin Range(view)
          /\ DerivedPolarity(t) = filterType
    /\ \E t \in Range(transactions) :
          /\ t \notin Range(view)
          /\ ContainsIgnoringCase(t.description, searchQuery)

\* C2: the income total is the sum of the magnitudes of the amounts of the
\* view records classified as income, the expenses total that of the view
\* records classified as expense, also when a stored amount is negative.
C2_TotalsAreMagnitudes ==
    /\ totalIncome = MagnitudeSum(view, "income")
    /\ totalExpenses = MagnitudeSum(view, "expense")

\* C3: the displayed net balance is the displayed income total minus the
\* displayed expenses total, both totals taken over the displayed view.
C3_NetIsIncomeMinusExpenses ==
    /\ netBalance = totalIncome - totalExpenses
    /\ totalIncome = TotalIncome(page, view)
    /\ totalExpenses = TotalExpenses(page, view)

C3_Witness ==
    /\ totalIncome > 0
    /\ totalExpenses > 0
    /\ searchQuery # <<>>
    /\ Len(view) < Len(transactions)

\* C4: with filterType 'all' and an empty searchQuery the view is a
\* permutation of the transaction list, for every sortBy and sortOrder.
C4_PermutationWhenUnfiltered ==
    (filterType = "all" /\ searchQuery = <<>>) =>
        /\ Len(view) = Len(transactions)
        /\ \A t \in Range(transactions) :
              Cardinality({i \in 1..Len(view) : view[i] = t}) = 1

C4_Witness ==
    /\ filterType = "all"
    /\ searchQuery = <<>>
    /\ Len(transactions) = MaxLen
    /\ sortBy = "amount"
    /\ view # transactions

\* C5: an empty transaction list gives an empty view and income, expenses
\* and net of 0, whatever the four view parameters.
C5_EmptyInput ==
    transactions = <<>> =>
        /\ view = <<>>
        /\ totalIncome = 0
        /\ totalExpenses = 0
        /\ netBalance = 0

C5_Witness ==
    /\ transactions = <<>>
    /\ filterType = "income"
    /\ searchQuery # <<>>
    /\ sortBy = "amount"
    /\ sortOrder = "asc"

\* C6: the view is ordered by the chosen key: ascending, every record's key
\* is at most the next record's; descending, at least the next record's.
C6_ViewOrderedByKey ==
    \A i \in 1..(Len(view) - 1) :
        IF sortOrder = "asc" THEN KeyLeq(view[i], view[i + 1])
        ELSE KeyLeq(view[i + 1], view[i])

C6_Witness ==
    /\ sortOrder = "asc"
    /\ sortBy = "date"
    /\ Len(view) = MaxLen
    /\ ~KeyEqual(view[1], view[Len(view)])
    /\ view # transactions

\* C7: view records with equal sort keys keep their relative order from the
\* transaction list, ascending and descending alike.
C7_TiesKeepInputOrder ==
    \A i, j \in 1..Len(view) :
        (i < j /\ KeyEqual(view[i], view[j])) =>
            PositionIn(transactions, view[i]) < PositionIn(transactions, view[j])

C7_Witness ==
    /\ sortOrder = "desc"
    /\ sortBy = "amount"
    /\ Len(view) >= 3
    /\ \E i \in 1..(Len(view) - 1) :
          /\ KeyEqual(view[i], view[i + 1])
          /\ ~KeyEqual(view[1], view[Len(view)])

\* C8: sorting by amount, the sign-inferred page orders by the absolute
\* value of amount and the explicit-type page by the signed amount.
C8_AmountSortKey ==
    sortBy = "amount" =>
        \A i \in 1..(Len(view) - 1) :
            LET lo == IF sortOrder = "asc" THEN view[i] ELSE view[i + 1]
                hi == IF sortOrder = "asc" THEN view[i + 1] ELSE view[i]
            IN  IF page = "signInferred"
                THEN Abs(lo.amount) <= Abs(hi.amount)
                ELSE lo.amount <= hi.amount

C8_Witness ==
    /\ page = "signInferred"
    /\ sortBy = "amount"
    /\ sortOrder = "desc"
    /\ \E i, j \in 1..Len(view) :
          i < j /\ view[i].amount = -100 /\ view[j].amount = 50

\* C9: computing the view and totals never changes the stored transaction
\* list: it holds the records of the last fetched snapshot, in its order.
C9_TransactionsKeepSnapshot ==
    transactions = lastFetched

C9_Witness ==
    /\ Len(view) = Len(transactions)
    /\ view # transactions
    /\ sortBy # "date"
    /\ sortOrder = "asc"
    /\ transactions = lastFetched

\* C10: on the sign-inferred page a record is an expense when amount >= 0
\* (0 included) and income when amount < 0, and the type filter, the totals
\* and the rows all use that classification.
C10_SignClassification ==
    LET ClassOf(t) == IF t.amount >= 0 THEN "expense" ELSE "income"
        ofClass(c) == {t \in Range(view) : ClassOf(t) = c}
    IN  page = "signInferred" =>
            /\ \A i \in 1..Len(view) :
                  /\ rows[i].key = view[i].id
                  /\ rows[i].txType = ClassOf(view[i])
                  /\ rows[i].sign = (IF ClassOf(view[i]) = "income" THEN "+" ELSE "-")
            /\ filterType # "all" =>
                  \A t \in Range(transactions) :
                      (t \in Range(view)) =>  ClassOf(t) = filterType
            /\ (filterType # "all" /\ searchQuery = <<>>) =>
                  \A t \in Range(transactions) :
                      ClassOf(t) = filterType => t \in Range(view)
            /\ totalIncome = MagnitudeSum(view, "income")
            /\ totalExpenses = MagnitudeSum(view, "expense")
            /\ (ofClass("income") = {}) => totalIncome = 0
            /\ (ofClass("expense") = {}) => totalExpenses = 0

C10_Witness ==
    /\ page = "signInferred"
    /\ filterType = "expense"
    /\ \E i \in 1..Len(view) : view[i].amount = 0 /\ rows[i].txType = "expense"
    /\ \E t \in Range(transactions) : t.amount < 0 /\ t.type = "expense"

----------------------------------------------------------------------------
\* C11: one polarity rule for the whole program: for one snapshot the
\* dashboard's income and expense totals equal those of the transactions page
\* shown with filterType 'all' and an empty searchQuery.
C11_DashboardTotalsAgree ==
    (filterType = "all" /\ searchQuery = <<>>) =>
        /\ totalIncome = DashboardTotalIncome(transactions)
        /\ totalExpenses = DashboardTotalExpenses(transactions)

\* C12: the list of records "1" (100, expense, 2024-01-01, Coffee) and "2"
\* (50, income, 2024-01-02, Refund) with filterType all, sortBy date,
\* ascending, shows the view ["1", "2"] and income 50, expenses 100, net -50.
C12_Scenario ==
    ( /\ Len(transactions) = 2
      /\ {transactions[i].id : i \in 1..2} = {"1", "2"}
      /\ filterType = "all"
      /\ searchQuery = <<>>
      /\ sortBy = "date"
      /\ sortOrder = "asc" ) =>
        /\ [i \in 1..Len(view) |-> view[i].id] = <<"1", "2">>
        /\ totalIncome = 50
        /\ totalExpenses = 100
        /\ netBalance = -50

\* C13: the totals are taken over the filtered view: under filterType
\* 'income' every view record is income, expenses are 0 and net is the income
\* total; under 'expense' every view record is expense and income is 0.
C13_TotalsOverFilteredView ==
    /\ filterType = "income" =>
          /\ \A t \in Range(view) : DerivedPolarity(t) = "income"
          /\ totalExpenses = 0
          /\ netBalance = totalIncome
    /\ filterType = "expense" =>
          /\ \A t \in Range(view) : DerivedPolarity(t) = "expense"
          /\ totalIncome = 0

C13_Witness ==
    /\ filterType = "income"
    /\ totalIncome # 0
    /\ totalExpenses = 0
    /\ \E t \in Range(transactions) :
          DerivedPolarity(t) = "expense" /\ t.amount # 0

\* C15: whatever parameter changes and list updates came before, the shown
\* view and totals are those computed from the current transaction list and
\* the current four parameters.
C15_ViewIsRecomputed ==
    /\ view = FilteredAndSortedTransactions(page, transactions, filterType,
                                            searchQuery, sortBy, sortOrder)
    /\ totalIncome = TotalIncome(page, view)
    /\ totalExpenses = TotalExpenses(page, view)
    /\ netBalance = NetBalance(totalIncome, totalExpenses)
    /\ rows = Rows(page, view)

C15_Witness ==
    /\ filterType = "expense"
    /\ searchQuery = <<"c", "o", "f">>
    /\ sortBy = "amount"
    /\ sortOrder = "asc"
    /\ Len(view) >= 1
    /\ Len(transactions) = MaxLen


\* C16: every home and transactions page renders its content only after its
\* session check has observed a session; without one it goes to /login and
\* stays in its loading state.
C16_ContentOnlyAfterSession ==
    /\ ContentRendered => authChecked = "session"
    /\ authChecked = "nosession" => (navigatedTo = "/login" /\ loading)

ProviderFailures == {"fetchError", "insertError", "deleteError"}

\* C17: every provider-side failure (failed fetch, insert or delete) is shown
\* to the user as a visible message, and the page keeps rendering.
C17_FailuresAreShown ==
    lastEvent.what \in ProviderFailures =>
        /\ lastEvent.alert # "none"
        /\ navigatedTo = "none"

\* C18: a fetch that answers an error leaves the stored list, and with it the
\* view and the totals, as they were; until a fetch has delivered, the list
\* and the view are empty and income, expenses and net are 0.
C18_FailedFetchKeepsList ==
    /\ [](~fetchedOnce =>
            /\ transactions = <<>>
            /\ view = <<>>
            /\ rows = <<>>
            /\ totalIncome = 0 /\ totalExpenses = 0 /\ netBalance = 0)
    /\ [][(lastEvent'.what = "fetchError" /\ Len(requests') < Len(requests))
            => UNCHANGED <<transactions, view, rows, totalIncome,
                           totalExpenses, netBalance>>]_vars

C18_Witness ==
    /\ lastEvent.what = "fetchError"
    /\ ContentRendered
    /\ fetchedOnce
    /\ transactions # <<>>
    /\ Range(transactions) # db

C20_IdsDistinctStableNeverReused ==
    /\ [](\A i, j \in 1..Len(expenses) :
            i # j => expenses[i].id # expenses[j].id)
    /\ [][/\ \A j \in 1..Len(expenses') :
                expenses'[j].id \in issuedIds =>
                    expenses'[j] \in Range(expenses)
          /\ \A i \in 1..Len(expenses) :
                expenses[i].id \in {expenses'[j].id : j \in 1..Len(expenses')}
                    => expenses[i] \in Range(expenses')]_vars

C20_Witness ==
    /\ Len(expenses) = 2
    /\ Cardinality(issuedIds) = MaxIds
    /\ expenses[2].id \notin {UUIDList[1], UUIDList[2]}
    /\ total = 25

C22_QueriesAfterSession ==
    \A q \in dashboardQueries : q.auth = "session"

RECURSIVE SumOfIndices(_, _)
SumOfIndices(f, S) ==
    IF S = {} THEN 0
    ELSE LET i == CHOOSE j \in S : TRUE
         IN  f[i] + SumOfIndices(f, S \ {i})

\* C28: on the dashboard total balance is the sum of all account balances and
\* total debts is the sum of the magnitudes of exactly the negative balances
\* of credit_card accounts, so it is never negative and a negative balance of
\* another kind of account adds nothing to it.
C28_BalanceAndDebts ==
    LET all == 1..Len(accounts)
        owing == {i \in all : /\ accounts[i].type = "credit_card"
                              /\ accounts[i].balance < 0}
    IN  /\ totalBalance = SumOfIndices([i \in all |-> accounts[i].balance], all)
        /\ totalDebts = SumOfIndices([i \in all |-> 0 - accounts[i].balance],
                                     owing)
        /\ totalDebts >= 0

C28_Witness ==
    /\ home = "dashboard"
    /\ ~loadingAccounts
    /\ \E i \in 1..Len(accounts) :
          accounts[i].type # "credit_card" /\ accounts[i].balance < 0
    /\ \E i \in 1..Len(accounts) :
          accounts[i].type = "credit_card" /\ accounts[i].balance < 0
    /\ totalDebts = 75
    /\ totalBalance = -95

\* The expenses of list whose id is not id, in the order of list
KeptInOrder(list, id) ==
    LET kept == {i \in 1..Len(list) : list[i].id # id}
        Nth(j) == CHOOSE i \in kept : Cardinality({k \in kept : k <= i}) = j
    IN  [j \in 1..Cardinality(kept) |-> list[Nth(j)]]

\* C29: add-expense appends the new expense and leaves the others and their
\* order alone; delete-expense(id) removes exactly the expenses with that id,
\* keeps the others in order and changes nothing when none has the id; the
\* displayed total is always the sum of the amounts in the list.
C29_ExpenseListOps ==
    /\ [](total = SumOfIndices([i \in 1..Len(expenses) |-> expenses[i].amount],
                               1..Len(expenses)))
    /\ [][(lastExpenseOp' # lastExpenseOp \/ expenses' # expenses) =>
            IF lastExpenseOp'.op = "add"
            THEN expenses' = expenses \o
                    << [id |-> lastExpenseOp'.id,
                        amount |-> lastExpenseOp'.amount] >>
            ELSE /\ lastExpenseOp'.op = "delete"
                 /\ expenses' = KeptInOrder(expenses, lastExpenseOp'.id)]_vars

C29_Witness ==
    /\ lastExpenseOp.op = "delete"
    /\ Len(expenses) = 2
    /\ Cardinality(issuedIds) = MaxIds
    /\ expenses[1].amount # expenses[2].amount
    /\ total = 25

\* C23: once all overlapping fetchTransactions calls have completed, the
\* stored list is the response of the call that was issued last, whatever
\* order the responses arrived in.
C23_LastIssuedWins ==
    (requests = <<>> /\ newestFetch.state = "delivered") =>
        /\ lastFetched = newestFetch.data
        /\ transactions = newestFetch.data

\* C27: when handleAddTransaction ends with an insert error or without a
\* session, the form fields, the form's visibility and the stored list are
\* left as they were; only when it succeeds are the fields reset to their
\* defaults and the form hidden.
C27_FormKeptUnlessAdded ==
    [][(insertInFlight # NoRow /\ insertInFlight' = NoRow) =>
          IF lastEvent'.what = "insertOk"
          THEN /\ formAmount' = <<>>
               /\ formDescription' = <<>>
               /\ formType' = "expense"
               /\ formCategory' = "Online Purchases"
               /\ formDate' = Today
               /\ showForm' = FALSE
          ELSE /\ lastEvent'.what \in {"insertError", "insertNoSession"}
               /\ UNCHANGED <<showForm, formAmount, formDescription, formType,
                              formCategory, formDate, transactions,
                              lastFetched>>]_vars

C27_Witness ==
    /\ lastEvent.what = "insertError"
    /\ ~saving
    /\ showForm
    /\ formAmount # <<>>
    /\ formCategory = "Food"
    /\ formType = "income"

\* The one navigation the callback owes for the way it ended
CallbackTarget ==
    IF cbTokenHash /\ cbType
    THEN IF lastEvent.what = "verifyError" THEN VerificationFailedUrl ELSE "/"
    ELSE IF cbHash
         THEN IF lastEvent.what = "sessionError" THEN AuthFailedUrl
              ELSE IF lastEvent.what = "sessionFound" THEN "/" ELSE "/login"
         ELSE "/"

\* C24: the callback handler navigates exactly once on every path: with
\* token_hash and type it calls verifyOtp and never getSession; otherwise
\* with a hash it calls getSession; with neither it calls nothing; and the
\* target is the one its outcome prescribes.
C24_CallbackNavigatesOnce ==
    screen = "callback" =>
        /\ cbStep # "done" => pushes = <<>>
        /\ cbStep = "done" => pushes = <<CallbackTarget>>
        /\ Len(pushes) <= 1
        /\ (cbTokenHash /\ cbType) => cbCalls \subseteq {"verifyOtp"}
        /\ ~(cbTokenHash /\ cbType) =>
              cbCalls \subseteq (IF cbHash THEN {"getSession"} ELSE {})
        /\ cbStep = "done" =>
              lastEvent.what \in
                 IF cbTokenHash /\ cbType THEN {"verifyError", "verifyOk"}
                 ELSE IF cbHash
                      THEN {"sessionError", "sessionFound", "sessionNone"}
                      ELSE {"noTokens"}

C24_Witness ==
    /\ screen = "callback"
    /\ cbTokenHash /\ cbType /\ cbHash
    /\ cbStep = "done"
    /\ lastEvent.what = "verifyError"
    /\ pushes = <<VerificationFailedUrl>>
    /\ cbCalls = {"verifyOtp"}

\* C25: the login form goes to '/' only after a login-mode call without
\* error; a sign-up call without error shows the check-your-email message
\* and does not redirect; a call with an error shows the provider's message
\* and does not redirect.
C25_LoginRedirect ==
    [][(loginCall = "none" /\ loginCall' # "none") =>
          loginCall' = IF isSignUp THEN "signUp" ELSE "signInWithPassword"]_vars
    /\ [][(loginCall # "none" /\ loginCall' = "none") =>
          \/ /\ loginCall = "signInWithPassword"
             /\ message' = SuccessMessage
             /\ location' = "/"
          \/ /\ loginCall = "signUp"
             /\ message' = CheckEmailMessage
             /\ location' = location
          \/ /\ message' \in AuthErrorMessages(loginCall)
             /\ location' = location]_vars
    /\ [](location = "/" => message = SuccessMessage)
    /\ [][(location' = "/" /\ location # "/") =>
             (loginCall = "signInWithPassword" /\ loginCall' = "none")]_vars

C25_Witness ==
    /\ screen = "login"
    /\ location = "/"
    /\ message = SuccessMessage
    /\ ~loginLoading
    /\ loginCall = "none"

====
